---- MODULE Spec2Model ----
(***************************************************************************)
(* The Metal backend of the Compiled primitive (mlx/backend/metal/         *)
(* compiled.cpp): build_kernel, which emits one kernel variant of a fused  *)
(* elementwise computation, and Compiled::eval_gpu, which builds the       *)
(* library of ten variants on first use, analyses the runtime arrays,      *)
(* selects a variant, binds its arguments and launches it.                 *)
(*                                                                         *)
(* The emitted kernel text is kept in structured form (parameter list,     *)
(* per-axis index expressions, statement list) and RunKernel interprets    *)
(* that text over the launched grid, reading the buffers eval_gpu bound.   *)
(*                                                                         *)
(* Machine words: TLC's integers are 32-bit signed, so the 32-bit unsigned *)
(* arithmetic of the kernels cannot be written at its own width.  The      *)
(* model's uint is IndexBits wide and UINT32_MAX, INT32_MAX are derived    *)
(* from that width; every size of the model is chosen against it.  size_t  *)
(* arithmetic never overflows at these sizes and is left unbounded.        *)
(* Element types are left out: no statement of this development depends    *)
(* on them.                                                                *)
(***************************************************************************)
EXTENDS Integers, Sequences, FiniteSets, TLC

(* ------------------------------------------------------------------ *)
(* Bounds of the model                                                  *)
(* ------------------------------------------------------------------ *)

\* Largest dimension size of the exhaustively enumerated small shapes.
MaxDim == 2
\* Largest rank of the exhaustively enumerated small shapes.
SmallRank == 2
\* Largest rank of the uniform (all dimensions 2) deep shapes.
MaxRank == 8
\* How far below the argument limit the many-input primitives start.
CapSlack == 6
\* Width of the model's uint.
IndexBits == 8
\* Source generation runs at most this often in one behaviour.
MaxGenRuns == 2

(* ------------------------------------------------------------------ *)
(* Program constants                                                    *)
(* ------------------------------------------------------------------ *)

\* if (cnt > 31)
MaxBuffers == 31
\* if (thread_group_size != 1024)
RequiredThreadgroupSize == 1024
\* for (int i = 1; i < 8; i++)
StaticRankEnd == 8
\* bool dynamic = ndim >= 8
DynamicRank == 8

Uint32Max == 2 ^ IndexBits - 1
Int32Max == 2 ^ (IndexBits - 1) - 1
UintModulus == 2 ^ IndexBits

(* ------------------------------------------------------------------ *)
(* Sequences of numbers                                                 *)
(* ------------------------------------------------------------------ *)

RECURSIVE Prod(_)
Prod(s) == IF s = <<>> THEN 1 ELSE Head(s) * Prod(Tail(s))

Min(a, b) == IF a < b THEN a ELSE b

Max(a, b) == IF a < b THEN b ELSE a

\* Strides of a row-major array of this shape.
RowMajor(shape) ==
  [i \in 1..Len(shape) |-> Prod(SubSeq(shape, i + 1, Len(shape)))]

\* Strides of a column-major array of this shape (a transposed view).
ColMajor(shape) ==
  [i \in 1..Len(shape) |-> Prod(SubSeq(shape, 1, i - 1))]

(* ------------------------------------------------------------------ *)
(* Arrays                                                               *)
(* ------------------------------------------------------------------ *)

Array(shape, strides) ==
  [shape |-> shape, strides |-> strides, data_size |-> Prod(shape)]

is_scalar(x) == Len(x.shape) = 0

is_constant(constant_ids, x) == x.id \in constant_ids

(* ------------------------------------------------------------------ *)
(* The fused computations of the model                                  *)
(* ------------------------------------------------------------------ *)

InputId(i) == 100 + i

NodeId(k) == 200 + k

\* A chain over the inputs ending in a type cast: node 1 applies an
\* operation to the first one or two inputs, node k to node k-1 and input
\* k+1, and the last node casts the node before it.
TapeOf(n) ==
  LET ops == Max(1, n - 1)
  IN [k \in 1..(ops + 1) |->
        IF k = ops + 1
          THEN [id |-> NodeId(k), inputs |-> <<NodeId(k - 1)>>, cast |-> TRUE]
          ELSE IF k = 1
            THEN [id |-> NodeId(1),
                  inputs |-> IF n >= 2 THEN <<InputId(1), InputId(2)>>
                                       ELSE <<InputId(1)>>,
                  cast |-> FALSE]
            ELSE [id |-> NodeId(k),
                  inputs |-> <<NodeId(k - 1), InputId(k + 1)>>,
                  cast |-> FALSE]]

\* kinds: a sequence of [shape, const]; n_out: one or two outputs.
Primitive(kinds, out_shape, n_out) ==
  LET n == Len(kinds)
      tape == TapeOf(n)
  IN [inputs_ |-> [i \in 1..n |-> [id |-> InputId(i), shape |-> kinds[i].shape]],
      constant_ids_ |-> {InputId(i) : i \in {j \in 1..n : kinds[j].const}},
      tape_ |-> tape,
      outputs_ |-> IF n_out = 1
                     THEN <<[id |-> tape[Len(tape)].id, shape |-> out_shape]>>
                     ELSE <<[id |-> tape[1].id, shape |-> out_shape],
                            [id |-> tape[Len(tape)].id, shape |-> out_shape]>>]

\* The shape elementwise broadcasting gives the inputs (trailing alignment).
BroadcastShape(shapes) ==
  LET r == IF shapes = <<>> THEN 0
           ELSE CHOOSE m \in 0..(MaxRank + 1) :
                  /\ \A i \in DOMAIN shapes : Len(shapes[i]) <= m
                  /\ \E i \in DOMAIN shapes : Len(shapes[i]) = m
      dim(s, j) == IF j <= r - Len(s) THEN 1 ELSE s[j - (r - Len(s))]
  IN [j \in 1..r |->
        IF \E i \in DOMAIN shapes : dim(shapes[i], j) # 1
          THEN dim(shapes[CHOOSE i \in DOMAIN shapes : dim(shapes[i], j) # 1], j)
          ELSE 1]

\* The shapes an input of a computation with output shape S may have: S,
\* S with one axis of size 1, and S without its leading axes.
InShapes(S) ==
  {S} \cup {[S EXCEPT ![a] = 1] : a \in 1..Len(S)}
      \cup {SubSeq(S, k + 1, Len(S)) : k \in 1..Len(S)}

Const == [shape |-> <<>>, const |-> TRUE]

Var(shape) == [shape |-> shape, const |-> FALSE]

InputKinds(S) == {Var(s) : s \in InShapes(S)} \cup {Const}

KindLists(S) ==
  {l \in {<<x>> : x \in InputKinds(S)}
         \cup {<<x, y>> : x \in InputKinds(S), y \in InputKinds(S)} :
     BroadcastShape([i \in DOMAIN l |-> l[i].shape]) = S}

SmallShapes == UNION {[1..r -> 1..MaxDim] : r \in 0..SmallRank}

SmallPrimitives ==
  UNION {{Primitive(l, S, Len(l)) : l \in KindLists(S)} : S \in SmallShapes}

\* Deep shapes: every dimension 2, so that a column-major input keeps every
\* axis after collapsing and the effective rank reaches the dynamic variant.
DeepShape(r) == [i \in 1..r |-> 2]

DeepKindLists(S) ==
  {<<Var(S)>>} \cup
  {<<Var(S), y>> : y \in {Var(S), Var(<<>>), Const, Var([S EXCEPT ![1] = 1]),
                          Var([S EXCEPT ![Len(S)] = 1]), Var(Tail(S))}}

DeepPrimitives ==
  UNION {{Primitive(l, DeepShape(r), n_out) :
            l \in DeepKindLists(DeepShape(r)), n_out \in 1..2} :
           r \in (SmallRank + 1)..MaxRank}

\* Wide shapes: two dimensions whose product reaches past the uint range.
WideDim == 2 ^ (IndexBits \div 2)

WideShapes == {<<WideDim, WideDim>>, <<WideDim, WideDim + 1>>}

WidePrimitives ==
  UNION {{Primitive(l, S, 1) :
            l \in {<<Var(S)>>, <<Var(<<S[1], 1>>), Var(<<1, S[2]>>)>>}} :
           S \in WideShapes}

\* Computations with about as many inputs as a kernel has argument slots:
\* a first input that is an array or a scalar, then scalars.
ManyPrimitives ==
  {Primitive([i \in 1..n |-> IF i = 1 THEN first ELSE Var(<<>>)], <<2>>, n_out) :
     first \in {Var(<<2>>)}, n \in (MaxBuffers - CapSlack)..MaxBuffers,
     n_out \in 1..2}
  \cup
  {Primitive([i \in 1..n |-> Var(<<>>)], <<>>, 1) :
     n \in (MaxBuffers - CapSlack)..MaxBuffers}

Primitives ==
  SmallPrimitives \cup DeepPrimitives \cup WidePrimitives \cup ManyPrimitives

(* ------------------------------------------------------------------ *)
(* The arrays a call may pass                                           *)
(* ------------------------------------------------------------------ *)

\* An input of the traced shape, stored row-major or column-major.
Layouts(shape) ==
  {Array(shape, RowMajor(shape)), Array(shape, ColMajor(shape))}

RECURSIVE RuntimeInputs(_)
RuntimeInputs(inputs) ==
  IF inputs = <<>> THEN {<<>>}
  ELSE {<<a>> \o rest : a \in Layouts(Head(inputs).shape),
                        rest \in RuntimeInputs(Tail(inputs))}

ThreadgroupSizes == {RequiredThreadgroupSize, RequiredThreadgroupSize \div 2}

(* ------------------------------------------------------------------ *)
(* NodeNamer                                                            *)
(* ------------------------------------------------------------------ *)

\* The naming table is kept as the requests that were the first for their
\* identity, each <<time, identity>>: an identity not yet in the table gets
\* the next name, so its name is the number of first requests up to its own.
NamerTable(requests) ==
  {r \in requests : \A q \in requests : q[2] = r[2] => q[1] >= r[1]}

get_name(table, id) ==
  LET mine == CHOOSE r \in table : r[2] = id
  IN Cardinality({q \in table : q[1] <= mine[1]})

\* build_kernel asks for names in this order: the inputs (parameter list),
\* the outputs (parameter list), then every tape node followed by its inputs.
KernelNamer(inputs, outputs, tape) ==
  LET n == Len(inputs)
      m == Len(outputs)
      at(k) == n + m + (k - 1) * (MaxBuffers + 1) + 1
  IN NamerTable(
       {<<i, inputs[i].id>> : i \in DOMAIN inputs}
       \cup {<<n + k, outputs[k].id>> : k \in DOMAIN outputs}
       \cup {<<at(k), tape[k].id>> : k \in DOMAIN tape}
       \cup UNION {{<<at(k) + a, tape[k].inputs[a]>> : a \in DOMAIN tape[k].inputs} :
                     k \in DOMAIN tape})

(* ------------------------------------------------------------------ *)
(* build_kernel                                                         *)
(* ------------------------------------------------------------------ *)

\* One parameter "... name [[buffer(cnt++)]]" added to the parameter list.
Declare(st, role, arg, name) ==
  [st EXCEPT !.params = Append(@, [role |-> role, arg |-> arg, name |-> name,
                                   buffer |-> st.cnt]),
             !.cnt = @ + 1]

\* for (auto& x : inputs): constants are skipped; an input that is neither
\* a scalar nor read contiguously asks for the stride buffer.
RECURSIVE DeclareInputs(_, _, _, _, _, _)
DeclareInputs(inputs, constant_ids, contiguous, namer, i, st) ==
  IF i > Len(inputs) THEN st
  ELSE LET x == inputs[i]
       IN DeclareInputs(inputs, constant_ids, contiguous, namer, i + 1,
            IF is_constant(constant_ids, x) THEN st
            ELSE IF is_scalar(x) \/ contiguous
              THEN Declare(st, "input", i, get_name(namer, x.id))
              ELSE [Declare(st, "input", i, get_name(namer, x.id))
                      EXCEPT !.add_indices = TRUE])

RECURSIVE DeclareOutputs(_, _, _, _)
DeclareOutputs(outputs, namer, i, st) ==
  IF i > Len(outputs) THEN st
  ELSE DeclareOutputs(outputs, namer, i + 1,
         Declare(st, "output", i, get_name(namer, outputs[i].id)))

\* A parameter list that declares the input-stride buffer after the outputs
\* instead of before them: not what build_kernel does.
KernelParamsStridesAfterOutputs(inputs, outputs, constant_ids, contiguous, dynamic_dims, namer) ==
  LET s0 == [params |-> <<>>, cnt |-> 0, add_indices |-> FALSE]
      s1 == DeclareInputs(inputs, constant_ids, contiguous, namer, 1, s0)
      s2 == DeclareOutputs(outputs, namer, 1, s1)
      s3 == IF s1.add_indices THEN Declare(s2, "in_strides", 0, 0) ELSE s2
      s4 == IF ~contiguous
              THEN Declare(Declare(s3, "output_strides", 0, 0), "output_shape", 0, 0)
              ELSE s3
      s5 == IF dynamic_dims THEN Declare(s4, "ndim", 0, 0) ELSE s4
  IN s5

\* The whole parameter list with the final value of cnt.
KernelParams(inputs, outputs, constant_ids, contiguous, dynamic_dims, namer) ==
  LET s0 == [params |-> <<>>, cnt |-> 0, add_indices |-> FALSE]
      s1 == DeclareInputs(inputs, constant_ids, contiguous, namer, 1, s0)
      s2 == IF s1.add_indices THEN Declare(s1, "in_strides", 0, 0) ELSE s1
      s3 == DeclareOutputs(outputs, namer, 1, s2)
      s4 == IF ~contiguous
              THEN Declare(Declare(s3, "output_strides", 0, 0), "output_shape", 0, 0)
              ELSE s3
      s5 == IF dynamic_dims THEN Declare(s4, "ndim", 0, 0) ELSE s4
  IN s5

\* The per-axis indices index_0 .. index_<ndim-1> of a static strided kernel.
KernelIndices(add_indices, ndim, dynamic_dims) ==
  IF add_indices /\ ~dynamic_dims
    THEN IF ndim = 1 THEN <<[expr |-> "pos.x", axis |-> 0]>>
         ELSE IF ndim = 2 THEN <<[expr |-> "pos.y", axis |-> 0],
                                 [expr |-> "pos.x", axis |-> 0]>>
         ELSE IF ndim = 3 THEN <<[expr |-> "pos.z", axis |-> 0],
                                 [expr |-> "pos.y", axis |-> 0],
                                 [expr |-> "pos.x", axis |-> 0]>>
         ELSE [i \in 1..(ndim - 2) |->
                 [expr |-> "(index / uint(output_strides[i])) % output_shape[i]",
                  axis |-> i - 1]]
              \o <<[expr |-> "pos.y", axis |-> 0], [expr |-> "pos.x", axis |-> 0]>>
    ELSE <<>>

Stmt(op, input, dst, buf, args, offset, ndim) ==
  [op |-> op, input |-> input, dst |-> dst, buf |-> buf, args |-> args,
   offset |-> offset, ndim |-> ndim]

\* Read the inputs in tmps: nc counts the inputs read through the stride
\* buffer so far (nc_in_count).
RECURSIVE KernelLoads(_, _, _, _, _, _, _, _)
KernelLoads(inputs, constant_ids, contiguous, ndim, dynamic_dims, namer, i, nc) ==
  IF i > Len(inputs) THEN <<>>
  ELSE LET x == inputs[i]
           xname == get_name(namer, x.id)
           rest(n) == KernelLoads(inputs, constant_ids, contiguous, ndim,
                                  dynamic_dims, namer, i + 1, n)
       IN IF is_constant(constant_ids, x)
            THEN <<Stmt("constant", i, xname, 0, <<>>, 0, 0)>> \o rest(nc)
          ELSE IF is_scalar(x)
            THEN <<Stmt("scalar", i, xname, xname, <<>>, 0, 0)>> \o rest(nc)
          ELSE IF contiguous
            THEN <<Stmt("contiguous", i, xname, xname, <<>>, 0, 0)>> \o rest(nc)
          ELSE IF ~dynamic_dims
            THEN <<Stmt("strided", i, xname, xname, <<>>, nc * ndim, ndim)>>
                 \o rest(nc + 1)
          ELSE <<Stmt("elem_to_loc", i, xname, xname, <<>>, nc * ndim, 0)>>
               \o rest(nc + 1)

\* A tape in which a cast reads the local it defines instead of its input:
\* not what build_kernel does.
KernelComputeSelfCast(tape, namer) ==
  [k \in DOMAIN tape |->
     IF tape[k].cast
       THEN Stmt("static_cast", 0, get_name(namer, tape[k].id), 0,
                 <<get_name(namer, tape[k].id)>>, 0, 0)
       ELSE Stmt("apply", 0, get_name(namer, tape[k].id), 0,
                 [a \in DOMAIN tape[k].inputs |-> get_name(namer, tape[k].inputs[a])],
                 0, 0)]

\* Actually write the computation: one local per tape node.
KernelCompute(tape, namer) ==
  [k \in DOMAIN tape |->
     IF tape[k].cast
       THEN Stmt("static_cast", 0, get_name(namer, tape[k].id), 0,
                 <<get_name(namer, tape[k].inputs[1])>>, 0, 0)
       ELSE Stmt("apply", 0, get_name(namer, tape[k].id), 0,
                 [a \in DOMAIN tape[k].inputs |-> get_name(namer, tape[k].inputs[a])],
                 0, 0)]

\* Write the outputs from tmps.
KernelStores(outputs, namer) ==
  [k \in DOMAIN outputs |->
     Stmt("store", 0, 0, get_name(namer, outputs[k].id),
          <<get_name(namer, outputs[k].id)>>, 0, 0)]

build_kernel(kernel_name, inputs, outputs, tape, constant_ids, contiguous, ndim, dynamic_dims, use_big_index) ==
  LET namer == KernelNamer(inputs, outputs, tape)
      decl == KernelParams(inputs, outputs, constant_ids, contiguous,
                           dynamic_dims, namer)
  IN [name |-> kernel_name,
      params |-> decl.params,
      index_type |-> IF use_big_index THEN "size_t" ELSE "uint",
      indices |-> KernelIndices(decl.add_indices, ndim, dynamic_dims),
      body |-> KernelLoads(inputs, constant_ids, contiguous, ndim,
                           dynamic_dims, namer, 1, 0)
               \o KernelCompute(tape, namer)
               \o KernelStores(outputs, namer),
      cnt |-> decl.cnt]

\* The message of the failure build_kernel raises when cnt > 31.
TooManyBuffers(kernel_name) ==
  <<"[compile] Too many inputs/outputs fused in the Metal Compiled primitive which exhausted the available argument buffers for the kernel. Please file an issue with the function that results in this error. The name of the kernel is '",
    kernel_name, "'">>

\* A limit that refuses the last slot as well: not what build_kernel does.
kernel_overflows_at_limit(kernel) == kernel.cnt >= MaxBuffers

kernel_overflows(kernel) == kernel.cnt > MaxBuffers

(* ------------------------------------------------------------------ *)
(* The library: the build closure of eval_gpu                           *)
(* ------------------------------------------------------------------ *)

\* A closure that leaves out the wide-index contiguous kernel: not what
\* eval_gpu builds.
VariantsWithoutBig ==
  <<[suffix |-> "_contiguous", contiguous |-> TRUE, ndim |-> 0,
     dynamic_dims |-> FALSE, use_big_index |-> FALSE]>>
  \o [i \in 1..(StaticRankEnd - 1) |->
        [suffix |-> "_strided_" \o ToString(i), contiguous |-> FALSE, ndim |-> i,
         dynamic_dims |-> FALSE, use_big_index |-> FALSE]]
  \o <<[suffix |-> "_strided_dynamic", contiguous |-> FALSE, ndim |-> 0,
        dynamic_dims |-> TRUE, use_big_index |-> FALSE]>>

\* The ten build_kernel calls of the closure, in order.
Variants ==
  <<[suffix |-> "_contiguous", contiguous |-> TRUE, ndim |-> 0,
     dynamic_dims |-> FALSE, use_big_index |-> FALSE],
    [suffix |-> "_contiguous_big", contiguous |-> TRUE, ndim |-> 0,
     dynamic_dims |-> FALSE, use_big_index |-> TRUE]>>
  \o [i \in 1..(StaticRankEnd - 1) |->
        [suffix |-> "_strided_" \o ToString(i), contiguous |-> FALSE, ndim |-> i,
         dynamic_dims |-> FALSE, use_big_index |-> FALSE]]
  \o <<[suffix |-> "_strided_dynamic", contiguous |-> FALSE, ndim |-> 0,
        dynamic_dims |-> TRUE, use_big_index |-> FALSE]>>

BuildVariant(p, lib_name, v) ==
  build_kernel(lib_name \o v.suffix, p.inputs_, p.outputs_, p.tape_,
               p.constant_ids_, v.contiguous, v.ndim, v.dynamic_dims,
               v.use_big_index)

\* The closure: every variant in turn; the first build_kernel that raises
\* ends it, and then there is no source text.
BuildSource(p, lib_name) ==
  LET kernels == [v \in DOMAIN Variants |-> BuildVariant(p, lib_name, Variants[v])]
      bad == {v \in DOMAIN kernels : kernel_overflows(kernels[v])}
  IN IF bad = {}
       THEN [ok |-> TRUE, kernels |-> kernels, error |-> <<>>]
       ELSE LET first == CHOOSE v \in bad : \A w \in bad : v <= w
            IN [ok |-> FALSE, kernels |-> <<>>,
                error |-> TooManyBuffers(kernels[first].name)]

(* ------------------------------------------------------------------ *)
(* Collaborators of eval_gpu                                            *)
(* ------------------------------------------------------------------ *)

\* The library name: the signature of the computation (which inputs are
\* constants, scalars or arrays, and the tape's operations), not its shapes.
build_lib_name(inputs, outputs, tape, constant_ids) ==
  LET tag(x) == IF is_constant(constant_ids, x) THEN "C"
                ELSE IF is_scalar(x) THEN "S" ELSE "V"
      RECURSIVE ins(_)
      ins(i) == IF i > Len(inputs) THEN "" ELSE tag(inputs[i]) \o ins(i + 1)
      RECURSIVE ops(_)
      ops(k) == IF k > Len(tape) THEN ""
                ELSE (IF tape[k].cast THEN "c" ELSE "f") \o ops(k + 1)
  IN "lib_" \o ops(1) \o "_" \o ins(1) \o "_" \o ToString(Len(outputs))

\* The call is contiguous iff every input that is not a scalar is stored
\* row-major with exactly the output's shape.
compiled_check_contiguity(inputs, shape) ==
  \A i \in DOMAIN inputs :
    \/ is_scalar(inputs[i])
    \/ /\ inputs[i].shape = shape
       /\ inputs[i].strides = RowMajor(shape)

\* Adjacent axes are merged while every stride vector allows it and the
\* merged size stays within size_cap; groups holds the axes of each merged
\* axis, size the size of the last group.
RECURSIVE CollapseGroups(_, _, _, _, _, _)
CollapseGroups(shape, strides, size_cap, i, size, groups) ==
  IF i > Len(shape) THEN groups
  ELSE LET mergeable ==
             /\ size * shape[i] <= size_cap
             /\ \A j \in DOMAIN strides :
                  strides[j][i] * shape[i] = strides[j][i - 1]
           last == groups[Len(groups)]
       IN IF mergeable
            THEN CollapseGroups(shape, strides, size_cap, i + 1, size * shape[i],
                   [groups EXCEPT ![Len(groups)] = Append(last, i)])
            ELSE CollapseGroups(shape, strides, size_cap, i + 1, shape[i],
                   Append(groups, <<i>>))

collapse_contiguous_dims(shape, strides, size_cap) ==
  IF shape = <<>> THEN [shape |-> <<>>, strides |-> [j \in DOMAIN strides |-> <<>>]]
  ELSE LET groups == CollapseGroups(shape, strides, size_cap, 2, shape[1], <<<<1>>>>)
       IN [shape |-> [g \in DOMAIN groups |->
                        Prod([a \in DOMAIN groups[g] |-> shape[groups[g][a]]])],
           strides |-> [j \in DOMAIN strides |->
                          [g \in DOMAIN groups |->
                             strides[j][groups[g][Len(groups[g])]]]]]

\* The kernel of that name in the library, if it has one.
get_kernel(kernel_name, lib) ==
  IF \E v \in DOMAIN lib : lib[v].name = kernel_name
    THEN [found |-> TRUE,
          kernel |-> lib[CHOOSE v \in DOMAIN lib : lib[v].name = kernel_name]]
    ELSE [found |-> FALSE, kernel |-> <<>>]

UnableToLoad(kernel_name) ==
  <<"[metal::Device] Unable to load kernel ", kernel_name>>

\* The storage the allocator gives every output: row-major, output shape.
compiled_allocate_outputs(outputs) ==
  [k \in DOMAIN outputs |-> Array(outputs[k].shape, RowMajor(outputs[k].shape))]

\* The wide-index grid: the axes are packed into x while x stays below
\* UINT32_MAX and into y after that.
RECURSIVE Grid2d(_, _, _, _, _)
Grid2d(shape, strides, i, grid_x, grid_y) ==
  IF i > Len(shape) THEN <<grid_x, grid_y, 1>>
  ELSE IF strides[i] = 0 THEN Grid2d(shape, strides, i + 1, grid_x, grid_y)
  ELSE IF grid_x * shape[i] < Uint32Max
    THEN Grid2d(shape, strides, i + 1, grid_x * shape[i], grid_y)
    ELSE Grid2d(shape, strides, i + 1, grid_x, grid_y * shape[i])

get_2d_grid_dims(shape, strides) == Grid2d(shape, strides, 1, 1, 1)

\* Threadgroup dimensions: powers of two, grown in turn along the three
\* axes while they fit the grid, 1024 threads in all at most.
RECURSIVE BlockPows(_, _, _)
BlockPows(dims, pows, sum) ==
  LET grow(st, a) ==
        IF st.sum < 10 /\ dims[a] >= 2 ^ (st.pows[a] + 1)
          THEN [pows |-> [st.pows EXCEPT ![a] = @ + 1], sum |-> st.sum + 1]
          ELSE st
      s3 == grow(grow(grow([pows |-> pows, sum |-> sum], 1), 2), 3)
  IN IF s3.sum = sum \/ s3.sum = 10 THEN s3.pows
     ELSE BlockPows(dims, s3.pows, s3.sum)

get_block_dims(dim0, dim1, dim2) ==
  LET pows == BlockPows(<<dim0, dim1, dim2>>, <<0, 0, 0>>, 0)
  IN <<2 ^ pows[1], 2 ^ pows[2], 2 ^ pows[3]>>

(* ------------------------------------------------------------------ *)
(* eval_gpu: the analysis of the runtime arrays                         *)
(* ------------------------------------------------------------------ *)

\* Broadcast strides that give every axis the input lacks the stride 0,
\* whatever the output's size there: not what eval_gpu computes.
BroadcastStridesZeroLead(x, output_shape, output_strides) ==
  LET lead == Len(output_shape) - Len(x.shape)
  IN [j \in 1..lead |-> 0]
     \o
     [i \in 1..Len(x.shape) |->
        IF x.shape[i] = 1
          THEN IF output_shape[lead + i] = 1 THEN output_strides[lead + i] ELSE 0
          ELSE x.strides[i]]

\* Broadcast the inputs to the output shape: the strides of input x seen as
\* an array of the output's shape.
BroadcastStrides(x, output_shape, output_strides) ==
  LET lead == Len(output_shape) - Len(x.shape)
  IN [j \in 1..lead |->
        IF output_shape[j] = 1 THEN output_strides[j] ELSE 0]
     \o
     [i \in 1..Len(x.shape) |->
        IF x.shape[i] = 1
          THEN IF output_shape[lead + i] = 1 THEN output_strides[lead + i] ELSE 0
          ELSE x.strides[i]]

\* The places of the inputs that get a row of strides: neither constant
\* nor scalar.
StridedInputs(inputs_, constant_ids_, inputs) ==
  SelectSeq([i \in DOMAIN inputs |-> i],
            LAMBDA i : /\ ~is_constant(constant_ids_, inputs_[i])
                       /\ ~is_scalar(inputs[i]))

InitialStrides(inputs_, constant_ids_, inputs, output_shape, output_strides, contiguous) ==
  <<output_strides>> \o
  (IF contiguous THEN <<>>
   ELSE LET rows == StridedInputs(inputs_, constant_ids_, inputs)
        IN [k \in DOMAIN rows |->
              BroadcastStrides(inputs[rows[k]], output_shape, output_strides)])

\* use_2d: the contiguous call needs the wide index.
NeedsBigIndex(inputs, contiguous) ==
  /\ contiguous
  /\ \E i \in DOMAIN inputs : inputs[i].data_size > Uint32Max

\* A selection that sends rank 8 to a static kernel: not what eval_gpu
\* does.
KernelNameLateDynamic(lib_name, contiguous, use_2d, ndim) ==
  IF contiguous
    THEN lib_name \o "_contiguous" \o (IF use_2d THEN "_big" ELSE "")
    ELSE lib_name \o "_strided_"
         \o (IF ndim > DynamicRank THEN "dynamic" ELSE ToString(ndim))

\* The name of the kernel the call uses.
KernelName(lib_name, contiguous, use_2d, ndim) ==
  IF contiguous
    THEN lib_name \o "_contiguous" \o (IF use_2d THEN "_big" ELSE "")
    ELSE lib_name \o "_strided_"
         \o (IF ndim >= DynamicRank THEN "dynamic" ELSE ToString(ndim))

(* ------------------------------------------------------------------ *)
(* eval_gpu: binding the arguments                                      *)
(* ------------------------------------------------------------------ *)

NoArray == [shape |-> <<>>, strides |-> <<>>, data_size |-> 0]

\* One argument set at slot cnt++.
Bind(st, role, arg, array, bytes) ==
  [st EXCEPT !.bindings = Append(@, [role |-> role, arg |-> arg, slot |-> st.cnt,
                                     array |-> array, bytes |-> bytes]),
             !.cnt = @ + 1]

\* A binding loop that sets the constants as arguments too: not what
\* eval_gpu does.
RECURSIVE BindInputsWithConstants(_, _, _, _, _, _, _)
BindInputsWithConstants(inputs_, constant_ids_, inputs, contiguous, strides, i, st) ==
  IF i > Len(inputs) THEN st
  ELSE BindInputsWithConstants(inputs_, constant_ids_, inputs, contiguous,
                               strides, i + 1,
         LET bound == Bind(st, "input", i, inputs[i], <<>>)
         IN IF ~contiguous /\ ~is_scalar(inputs[i])
              THEN [bound EXCEPT
                      !.in_strides = @ \o strides[st.stride_idx + 1],
                      !.stride_idx = @ + 1]
              ELSE bound)

\* Put the inputs in: constants are skipped; an input read through the
\* stride buffer appends its collapsed strides strides[stride_idx].
RECURSIVE BindInputs(_, _, _, _, _, _, _)
BindInputs(inputs_, constant_ids_, inputs, contiguous, strides, i, st) ==
  IF i > Len(inputs) THEN st
  ELSE BindInputs(inputs_, constant_ids_, inputs, contiguous, strides, i + 1,
         IF is_constant(constant_ids_, inputs_[i]) THEN st
         ELSE LET bound == Bind(st, "input", i, inputs[i], <<>>)
              IN IF ~contiguous /\ ~is_scalar(inputs[i])
                   THEN [bound EXCEPT
                           !.in_strides = @ \o strides[st.stride_idx + 1],
                           !.stride_idx = @ + 1]
                   ELSE bound)

RECURSIVE BindOutputs(_, _, _)
BindOutputs(outputs, i, st) ==
  IF i > Len(outputs) THEN st
  ELSE BindOutputs(outputs, i + 1, Bind(st, "output", i, outputs[i], <<>>))

\* All the arguments of one call, in the order eval_gpu sets them.
BindArguments(inputs_, constant_ids_, inputs, outputs, contiguous, shape, strides, dynamic) ==
  LET s0 == [bindings |-> <<>>, cnt |-> 0, in_strides |-> <<>>, stride_idx |-> 1]
      s1 == BindInputs(inputs_, constant_ids_, inputs, contiguous, strides, 1, s0)
      s2 == IF s1.in_strides # <<>>
              THEN Bind(s1, "in_strides", 0, NoArray, s1.in_strides) ELSE s1
      s3 == BindOutputs(outputs, 1, s2)
      s4 == IF ~contiguous
              THEN Bind(Bind(s3, "output_strides", 0, NoArray, strides[1]),
                        "output_shape", 0, NoArray, shape)
              ELSE s3
      s5 == IF dynamic THEN Bind(s4, "ndim", 0, NoArray, <<Len(shape)>>) ELSE s4
  IN s5

WrongBlockSize == <<"[Metal::binary] Must use 1024 sized block">>

(* ------------------------------------------------------------------ *)
(* The generated kernel, run by one thread                              *)
(* ------------------------------------------------------------------ *)

\* The bytes bound at the slot the kernel declares for this role; nothing
\* when the kernel declares no such parameter or the slot was not set.
BoundBytes(kernel, bindings, role) ==
  LET decl == {k \in DOMAIN kernel.params : kernel.params[k].role = role}
      slot == kernel.params[CHOOSE k \in decl : TRUE].buffer
      set == {b \in DOMAIN bindings : bindings[b].slot = slot}
  IN IF decl = {} \/ set = {} THEN <<>>
     ELSE bindings[CHOOSE b \in set : TRUE].bytes

\* A value as a uint holds it.
Uint(v) == v % UintModulus

\* uint index = pos.x + grid.x * (pos.y + grid.y * pos.z), or
\* size_t index = pos.x + grid.x * size_t(pos.y).
ThreadIndex(kernel, grid, pos) ==
  IF kernel.index_type = "size_t"
    THEN pos[1] + grid[1] * pos[2]
    ELSE Uint(pos[1] + Uint(grid[1] * Uint(pos[2] + Uint(grid[2] * pos[3]))))

\* The value of index_<i>, -1 when it reads past a bound buffer.
AxisIndex(e, pos, index, output_strides, output_shape) ==
  IF e.expr = "pos.x" THEN pos[1]
  ELSE IF e.expr = "pos.y" THEN pos[2]
  ELSE IF e.expr = "pos.z" THEN pos[3]
  ELSE IF /\ e.axis + 1 \in DOMAIN output_strides
          /\ e.axis + 1 \in DOMAIN output_shape
          /\ Uint(output_strides[e.axis + 1]) # 0
          /\ output_shape[e.axis + 1] # 0
    THEN (index \div Uint(output_strides[e.axis + 1])) % output_shape[e.axis + 1]
    ELSE -1

\* loc += (elem % shape[i]) * strides[i]; elem /= shape[i], from the last
\* axis to the first.
RECURSIVE elem_to_loc(_, _, _, _)
elem_to_loc(elem, shape, strides, ndim) ==
  IF ndim = 0 \/ elem = 0 THEN 0
  ELSE (elem % shape[ndim]) * strides[ndim]
       + elem_to_loc(elem \div shape[ndim], shape, strides, ndim - 1)

\* The buffers the kernel's addressing reads, as eval_gpu bound them.
KernelBuffers(kernel, bindings) ==
  [in_strides |-> BoundBytes(kernel, bindings, "in_strides"),
   output_strides |-> BoundBytes(kernel, bindings, "output_strides"),
   output_shape |-> BoundBytes(kernel, bindings, "output_shape"),
   ndim |-> BoundBytes(kernel, bindings, "ndim")]

\* The element of its buffer a load statement reads, -1 when the statement
\* reads past a bound buffer on the way.
LoadAddress(kernel, buf, s, pos, index) ==
  LET axes == [i \in DOMAIN kernel.indices |->
                 AxisIndex(kernel.indices[i], pos, index,
                           buf.output_strides, buf.output_shape)]
  IN IF s.op = "scalar" THEN 0
     ELSE IF s.op = "contiguous" THEN index
     ELSE IF s.op = "strided"
       THEN IF /\ \A i \in 1..Max(1, s.ndim) :
                    /\ i \in DOMAIN axes
                    /\ axes[i] >= 0
                    /\ s.offset + i \in DOMAIN buf.in_strides
              THEN LET RECURSIVE dot(_)
                       dot(i) == IF i > Max(1, s.ndim) THEN 0
                                 ELSE axes[i] * buf.in_strides[s.offset + i]
                                      + dot(i + 1)
                   IN dot(1)
              ELSE -1
     ELSE \* elem_to_loc(index, output_shape, in_strides + offset, ndim)
       IF /\ Len(buf.ndim) = 1
          /\ \A i \in 1..buf.ndim[1] :
               /\ i \in DOMAIN buf.output_shape
               /\ buf.output_shape[i] # 0
               /\ s.offset + i \in DOMAIN buf.in_strides
         THEN elem_to_loc(index, buf.output_shape,
                          SubSeq(buf.in_strides, s.offset + 1,
                                 s.offset + buf.ndim[1]),
                          buf.ndim[1])
         ELSE -1

\* The statements of a kernel that read an input buffer.
KernelReads(kernel) ==
  SelectSeq(kernel.body,
            LAMBDA s : s.op \in {"scalar", "contiguous", "strided", "elem_to_loc"})

\* What one thread does: the index it stores every output at, and the
\* element it reads of every non-constant input.
RunThread(kernel, buf, loads, grid, pos) ==
  LET index == ThreadIndex(kernel, grid, pos)
  IN [index |-> index,
      loads |-> [k \in DOMAIN loads |->
                   [input |-> loads[k].input,
                    addr |-> LoadAddress(kernel, buf, loads[k], pos, index)]]]

Threads(grid) ==
  {<<x, y, z>> : x \in 0..(grid[1] - 1), y \in 0..(grid[2] - 1),
                 z \in 0..(grid[3] - 1)}

(* ------------------------------------------------------------------ *)
(* State                                                                *)
(* ------------------------------------------------------------------ *)

VARIABLES
  prim,            \* the Compiled primitive: inputs_, outputs_, tape_, constant_ids_
  max_total_threads, \* what the device's kernels report as
                   \* maxTotalThreadsPerThreadgroup
  kernel_lib_,     \* its library name, "" until the first eval_gpu
  library_map,     \* the device's libraries by name: the kernels of each
  call,            \* the last eval_gpu: what it computed, bound and launched
  exec,            \* the launched kernel's run, once the device has run it
  lib_derivations, \* how often build_lib_name was called
  gen_runs         \* how often the build closure was run

vars == <<prim, max_total_threads, kernel_lib_, library_map, call, exec, lib_derivations, gen_runs>>

NoLaunch == [grid |-> <<>>, group |-> <<>>]

NoExec == [ran |-> FALSE, threads |-> <<>>]

NoCall ==
  [state |-> "none", lib_cached |-> FALSE, inputs |-> <<>>, max_threads |-> 0,
   contiguous |-> FALSE,
   initial_strides |-> <<>>, shape |-> <<>>, strides |-> <<>>, use_2d |-> FALSE,
   kernel_name |-> "", pipeline |-> "", outputs |-> <<>>, bindings |-> <<>>,
   in_strides |-> <<>>, launch |-> NoLaunch, error |-> <<>>]

Init ==
  /\ prim \in Primitives
  /\ max_total_threads \in ThreadgroupSizes
  /\ kernel_lib_ = ""
  /\ library_map = [n \in {} |-> <<>>]
  /\ call = NoCall
  /\ exec = NoExec
  /\ lib_derivations = 0
  /\ gen_runs = 0

(* ------------------------------------------------------------------ *)
(* eval_gpu                                                             *)
(* ------------------------------------------------------------------ *)

\* What eval_gpu does once it holds the library lib: analysis, selection,
\* binding and launch.  The result is the record of the call.
Dispatch(p, lib_name, lib, inputs, max_threads) ==
  LET output_shape == p.outputs_[1].shape
      output_strides == RowMajor(output_shape)
      contiguous == compiled_check_contiguity(inputs, output_shape)
      initial_strides == InitialStrides(p.inputs_, p.constant_ids_, inputs,
                                        output_shape, output_strides, contiguous)
      collapsed == IF contiguous
                     THEN [shape |-> <<>>, strides |-> <<>>]
                     ELSE collapse_contiguous_dims(output_shape, initial_strides,
                                                   Int32Max)
      shape == collapsed.shape
      strides == collapsed.strides
      use_2d == NeedsBigIndex(inputs, contiguous)
      ndim == Len(shape)
      dynamic == ndim >= DynamicRank
      kernel_name == KernelName(lib_name, contiguous, use_2d, ndim)
      kernel == get_kernel(kernel_name, lib)
      outputs == compiled_allocate_outputs(p.outputs_)
      bound == BindArguments(p.inputs_, p.constant_ids_, inputs, outputs,
                             contiguous, shape, strides, dynamic)
      nthreads == outputs[1].data_size
      dim0 == IF ndim > 0 THEN shape[ndim] ELSE 1
      dim1 == IF ndim > 1 THEN shape[ndim - 1] ELSE 1
      rest == Prod(outputs[1].shape) \div (dim0 * dim1)
      analysed == [NoCall EXCEPT
                     !.inputs = inputs, !.max_threads = max_threads,
                     !.contiguous = contiguous,
                     !.initial_strides = initial_strides,
                     !.shape = shape, !.strides = strides, !.use_2d = use_2d,
                     !.kernel_name = kernel_name]
      ready == [analysed EXCEPT
                  !.pipeline = kernel.kernel.name, !.outputs = outputs,
                  !.bindings = bound.bindings, !.in_strides = bound.in_strides]
  IN IF ~kernel.found
       THEN [analysed EXCEPT !.state = "failed",
                             !.error = UnableToLoad(kernel_name)]
     ELSE IF contiguous
       THEN [ready EXCEPT
               !.state = "launched",
               !.launch = [grid |-> IF use_2d
                                      THEN get_2d_grid_dims(outputs[1].shape,
                                                            outputs[1].strides)
                                      ELSE <<nthreads, 1, 1>>,
                           group |-> <<Min(nthreads, max_threads), 1, 1>>]]
     ELSE IF max_threads # RequiredThreadgroupSize
       THEN [ready EXCEPT !.state = "failed", !.error = WrongBlockSize]
     ELSE [ready EXCEPT
             !.state = "launched",
             !.launch = [grid |-> <<dim0, dim1, rest>>,
                         group |-> get_block_dims(dim0, dim1, rest)]]

\* One call of eval_gpu on the runtime arrays `inputs`.
EvalGpu(inputs) ==
  LET lib_name == IF kernel_lib_ = ""
                    THEN build_lib_name(prim.inputs_, prim.outputs_, prim.tape_,
                                        prim.constant_ids_)
                    ELSE kernel_lib_
      cached == lib_name \in DOMAIN library_map
      built == BuildSource(prim, lib_name)
  IN /\ cached \/ gen_runs < MaxGenRuns
     /\ kernel_lib_' = lib_name
     /\ lib_derivations' = IF kernel_lib_ = "" THEN lib_derivations + 1
                           ELSE lib_derivations
     /\ gen_runs' = IF cached THEN gen_runs ELSE gen_runs + 1
     /\ exec' = NoExec
     /\ UNCHANGED <<prim, max_total_threads>>
     /\ IF cached
          THEN /\ library_map' = library_map
               /\ call' = [Dispatch(prim, lib_name, library_map[lib_name],
                                    inputs, max_total_threads)
                             EXCEPT !.lib_cached = TRUE]
          ELSE IF built.ok
            THEN /\ library_map' = [n \in DOMAIN library_map \cup {lib_name} |->
                                      IF n = lib_name THEN built.kernels
                                      ELSE library_map[n]]
                 /\ call' = Dispatch(prim, lib_name, built.kernels,
                                     inputs, max_total_threads)
            ELSE /\ library_map' = library_map
                 /\ call' = [NoCall EXCEPT !.state = "failed", !.inputs = inputs,
                                           !.max_threads = max_total_threads,
                                           !.error = built.error]

\* The device runs the launched kernel: every thread of the grid.
RunKernel ==
  /\ call.state = "launched"
  /\ ~exec.ran
  /\ LET kernel == get_kernel(call.pipeline, library_map[kernel_lib_]).kernel
         buf == KernelBuffers(kernel, call.bindings)
         loads == KernelReads(kernel)
     IN exec' = [ran |-> TRUE,
                 threads |-> [pos \in Threads(call.launch.grid) |->
                                RunThread(kernel, buf, loads,
                                          call.launch.grid, pos)]]
  /\ UNCHANGED <<prim, max_total_threads, kernel_lib_, library_map, call,
                 lib_derivations, gen_runs>>

Next ==
  \/ \E inputs \in RuntimeInputs(prim.inputs_) : EvalGpu(inputs)
  \/ RunKernel

Spec == Init /\ [][Next]_vars

(* ------------------------------------------------------------------ *)
(* Vocabulary of the statements                                         *)
(* ------------------------------------------------------------------ *)

\* The call got as far as selecting a kernel.
Selected == call.kernel_name # ""

Launched == call.state = "launched"

OutputShape == prim.outputs_[1].shape

OutputSize == Prod(OutputShape)

ConstantPlaces ==
  {i \in DOMAIN prim.inputs_ : prim.inputs_[i].id \in prim.constant_ids_}

\* The places of the inputs addressed through strides, in parameter order.
StridedPlaces ==
  {i \in DOMAIN prim.inputs_ : i \notin ConstantPlaces /\ prim.inputs_[i].shape # <<>>}

\* The k-th (from 1) smallest element of a set of numbers.
Nth(S, k) == CHOOSE i \in S : Cardinality({j \in S : j <= i}) = k

\* A failure message names a kernel when the name is one of its parts.
NamesKernel(error, name) == \E i \in DOMAIN error : error[i] = name

\* The kernels the library of the primitive holds, none before it is built.
LibraryKernels ==
  IF kernel_lib_ \in DOMAIN library_map THEN library_map[kernel_lib_] ELSE <<>>

\* The kernel the call set as its pipeline state.
PipelineKernel ==
  LibraryKernels[CHOOSE v \in DOMAIN LibraryKernels :
                   LibraryKernels[v].name = call.pipeline]

\* The per-axis indices of the element with this row-major linear index.
Unravel(index, shape) ==
  [a \in DOMAIN shape |->
     (index \div Prod(SubSeq(shape, a + 1, Len(shape)))) % shape[a]]

\* The order the binding convention gives the roles.
RoleOrder(role) ==
  CASE role = "input" -> 1
    [] role = "in_strides" -> 2
    [] role = "output" -> 3
    [] role = "output_strides" -> 4
    [] role = "output_shape" -> 5
    [] role = "ndim" -> 6

\* The ten kernel names of the library called kernel_lib_.
TenNames ==
  {kernel_lib_ \o "_contiguous", kernel_lib_ \o "_contiguous_big",
   kernel_lib_ \o "_strided_dynamic"}
  \cup {kernel_lib_ \o "_strided_" \o ToString(r) : r \in 1..(StaticRankEnd - 1)}

\* The places a role is bound at, and the arguments bound there.
BoundAt(role) == {k \in DOMAIN call.bindings : call.bindings[k].role = role}

BoundArgs(role) == {call.bindings[k].arg : k \in BoundAt(role)}

(* ------------------------------------------------------------------ *)
(* C1                                                                   *)
(* ------------------------------------------------------------------ *)

\* C1: on every call that reaches the launch, the arguments are set at the
\* slots 0, 1, 2, ... in the order non-constant inputs (parameter order),
\* the input-stride buffer if any input is strided, the outputs, then on the
\* strided path the output strides and the output shape, then the rank for
\* the rank-generic variant; and the selected kernel declares the same roles
\* at the same slots.
C1_BindingsFollowDeclaration ==
  Launched =>
    LET params == PipelineKernel.params
        b == call.bindings
    IN /\ Len(b) = Len(params)
       /\ \A k \in DOMAIN b :
            /\ b[k].slot = k - 1
            /\ params[k].buffer = k - 1
            /\ params[k].role = b[k].role
            /\ params[k].arg = b[k].arg
       /\ \A k \in DOMAIN b : k > 1 =>
            \/ RoleOrder(b[k - 1].role) < RoleOrder(b[k].role)
            \/ /\ b[k - 1].role = b[k].role
               /\ b[k].role \in {"input", "output"}
               /\ b[k - 1].arg < b[k].arg
       /\ BoundArgs("input") = DOMAIN prim.inputs_ \ ConstantPlaces
       /\ BoundArgs("output") = DOMAIN prim.outputs_
       /\ BoundAt("in_strides") # {} <=> (~call.contiguous /\ StridedPlaces # {})
       /\ BoundAt("output_strides") # {} <=> ~call.contiguous
       /\ BoundAt("output_shape") # {} <=> ~call.contiguous
       /\ BoundAt("ndim") # {} <=>
            (~call.contiguous /\ Len(call.shape) >= DynamicRank)

\* A launched rank-generic call with a constant input, a strided input and
\* more than one output: every role is bound.
C1_Witness ==
  /\ Launched
  /\ BoundAt("ndim") # {}
  /\ BoundAt("in_strides") # {}
  /\ ConstantPlaces # {}
  /\ Len(prim.outputs_) > 1

(* ------------------------------------------------------------------ *)
(* C2                                                                   *)
(* ------------------------------------------------------------------ *)

\* The output element a thread of a strided launch computes: its position
\* in the grid (innermost, second-innermost, the rest), row-major.
ThreadElement(pos) ==
  pos[1] + call.launch.grid[1] * (pos[2] + call.launch.grid[2] * pos[3])

\* The dot product of an element's per-axis indices with row k (from 1) of
\* the input-stride buffer of the call.
RowDot(elem, k) ==
  LET r == Len(call.shape)
      idx == Unravel(elem, call.shape)
      RECURSIVE dot(_)
      dot(a) == IF a > r THEN 0
                ELSE idx[a] * call.in_strides[(k - 1) * r + a] + dot(a + 1)
  IN dot(1)

\* C2: on the strided path, the address a thread loads from the k-th
\* non-scalar non-constant input (counted from 0 in parameter order) is the
\* dot product of its output element's per-axis indices with row k of the
\* input-stride buffer, in the static variants and the rank-generic one.
C2_StridedLoadsUseOwnRow ==
  (exec.ran /\ ~call.contiguous) =>
    \A pos \in DOMAIN exec.threads :
      \A l \in DOMAIN exec.threads[pos].loads :
        LET ld == exec.threads[pos].loads[l]
        IN ld.input \in StridedPlaces =>
             ld.addr = RowDot(ThreadElement(pos),
                              Cardinality({i \in StridedPlaces : i <= ld.input}))

(* ------------------------------------------------------------------ *)
(* C3                                                                   *)
(* ------------------------------------------------------------------ *)

\* C3: the selected kernel name is one of the ten names the library build
\* emits: contiguous_big exactly when the call is contiguous and some input
\* holds more than UINT32_MAX elements, contiguous otherwise on the
\* contiguous path, strided_<r> for an effective rank r from 1 to 7, and
\* strided_dynamic for an effective rank of 8 or more.
C3_KernelNameSelected ==
  Selected =>
    LET r == Len(call.shape)
        big == \E i \in DOMAIN call.inputs :
                 call.inputs[i].data_size > Uint32Max
    IN /\ call.kernel_name \in TenNames
       /\ (call.contiguous /\ big) =>
            call.kernel_name = kernel_lib_ \o "_contiguous_big"
       /\ (call.contiguous /\ ~big) =>
            call.kernel_name = kernel_lib_ \o "_contiguous"
       /\ (~call.contiguous /\ r \in 1..7) =>
            call.kernel_name = kernel_lib_ \o "_strided_" \o ToString(r)
       /\ (~call.contiguous /\ r >= 8) =>
            call.kernel_name = kernel_lib_ \o "_strided_dynamic"
       /\ kernel_lib_ \in DOMAIN library_map =>
            \E v \in DOMAIN LibraryKernels :
              LibraryKernels[v].name = call.kernel_name

\* A strided call of effective rank 8 selected the rank-generic kernel.
C3_Witness ==
  /\ Launched
  /\ ~call.contiguous
  /\ Len(call.shape) = 8
  /\ call.pipeline = kernel_lib_ \o "_strided_dynamic"

(* ------------------------------------------------------------------ *)
(* C4                                                                   *)
(* ------------------------------------------------------------------ *)

\* The variants of the primitive that declare more than 31 bound resources.
Overflowing ==
  {v \in DOMAIN Variants :
     Len(BuildVariant(prim, kernel_lib_, Variants[v]).params) > 31}

\* C4: if any of the ten variants would declare more than 31 bound
\* resources, the library build raises a failure that names that variant's
\* kernel, and the call sets no argument, launches nothing and leaves no
\* library behind; when no variant does, no such failure is raised.
C4_TooManyBuffersFailsBuild ==
  call.state # "none" =>
    IF Overflowing # {}
      THEN /\ call.state = "failed"
           /\ \E v \in Overflowing :
                NamesKernel(call.error, kernel_lib_ \o Variants[v].suffix)
           /\ call.error[1] = TooManyBuffers("")[1]
           /\ call.bindings = <<>>
           /\ call.pipeline = ""
           /\ call.launch = NoLaunch
           /\ ~exec.ran
           /\ kernel_lib_ \notin DOMAIN library_map
      ELSE call.error = <<>> \/ call.error[1] # TooManyBuffers("")[1]

\* A call failed in the build although the contiguous variants fit: only
\* strided variants declare too much.
C4_Witness ==
  /\ call.state = "failed"
  /\ Overflowing # {}
  /\ 1 \notin Overflowing
  /\ NamesKernel(call.error, kernel_lib_ \o "_strided_1")

(* ------------------------------------------------------------------ *)
(* C5                                                                   *)
(* ------------------------------------------------------------------ *)

\* C5: a strided call whose pipeline state reports a maximum threadgroup
\* size other than 1024 raises a failure that names the kernel, and
\* launches nothing.
C5_BlockSizeFailureNamesKernel ==
  (Selected /\ ~call.contiguous /\ call.pipeline # ""
   /\ call.max_threads # 1024) =>
    /\ call.state = "failed"
    /\ call.launch = NoLaunch
    /\ ~exec.ran
    /\ NamesKernel(call.error, call.kernel_name)

(* ------------------------------------------------------------------ *)
(* C6                                                                   *)
(* ------------------------------------------------------------------ *)

\* C6: on the strided path the stride vector of every non-constant
\* non-scalar input has the output's rank; an output axis the input lacks
\* (a leading one) gets the output's row-major stride when the output has
\* size 1 there and 0 otherwise; a matched axis where the input has size 1
\* gets 0 when the output is larger there and the output's stride when the
\* output has size 1 too; every other matched axis keeps the input's stride.
C6_BroadcastStrideVector ==
  (Selected /\ ~call.contiguous) =>
    LET S == OutputShape
        os == RowMajor(S)
        n == Cardinality(StridedPlaces)
    IN /\ Len(call.initial_strides) = 1 + n
       /\ \A k \in 1..n :
            LET x == call.inputs[Nth(StridedPlaces, k)]
                row == call.initial_strides[k + 1]
                lead == Len(S) - Len(x.shape)
            IN /\ Len(row) = Len(S)
               /\ \A j \in DOMAIN S :
                    row[j] =
                      IF j <= lead
                        THEN (IF S[j] = 1 THEN os[j] ELSE 0)
                      ELSE IF x.shape[j - lead] = 1
                        THEN (IF S[j] > 1 THEN 0 ELSE os[j])
                      ELSE x.strides[j - lead]

\* A strided call with an input that lacks a leading output axis of size
\* 1, and an input of size 1 on an axis where the output is larger.
C6_Witness ==
  /\ Selected
  /\ ~call.contiguous
  /\ \E i \in StridedPlaces :
       /\ Len(call.inputs[i].shape) < Len(OutputShape)
       /\ OutputShape[1] = 1
  /\ \E i \in StridedPlaces :
       LET x == call.inputs[i]
           lead == Len(OutputShape) - Len(x.shape)
       IN \E a \in DOMAIN x.shape :
            x.shape[a] = 1 /\ OutputShape[lead + a] > 1

(* ------------------------------------------------------------------ *)
(* C7                                                                   *)
(* ------------------------------------------------------------------ *)

\* C7: a constant input is never declared as a kernel parameter, never
\* bound and contributes no row to the input-stride buffer; its value is in
\* the kernel only as a literal.
C7_ConstantsNeverBound ==
  \A c \in ConstantPlaces :
    /\ \A v \in DOMAIN LibraryKernels :
         LET kernel == LibraryKernels[v]
             mine == {k \in DOMAIN kernel.body : kernel.body[k].input = c}
         IN /\ \A k \in DOMAIN kernel.params :
                 ~(kernel.params[k].role = "input" /\ kernel.params[k].arg = c)
            /\ Cardinality(mine) = 1
            /\ \A k \in mine : /\ kernel.body[k].op = "constant"
                               /\ kernel.body[k].buf = 0
    /\ c \notin BoundArgs("input")
    /\ (Selected /\ ~call.contiguous) =>
         /\ Len(call.initial_strides) = 1 + Cardinality(StridedPlaces)
         /\ call.pipeline # "" =>
              Len(call.in_strides) = Cardinality(StridedPlaces) * Len(call.shape)

\* A launched strided call of a primitive with a constant input next to a
\* strided one.
C7_Witness ==
  /\ Launched
  /\ ~call.contiguous
  /\ ConstantPlaces # {}
  /\ \E c \in ConstantPlaces : \E i \in StridedPlaces : c < i

(* ------------------------------------------------------------------ *)
(* C8                                                                   *)
(* ------------------------------------------------------------------ *)

C9_LocalsBoundOnceBeforeUse ==
  \A v \in DOMAIN LibraryKernels :
    LET body == LibraryKernels[v].body
        n == Len(prim.inputs_)
        t == Len(prim.tape_)
        binds == {k \in DOMAIN body : body[k].dst # 0}
    IN /\ Len(body) = n + t + Len(prim.outputs_)
       /\ binds = 1..(n + t)
       /\ \A k1, k2 \in binds : body[k1].dst = body[k2].dst => k1 = k2
       /\ \A k \in DOMAIN body : \A a \in DOMAIN body[k].args :
            \E j \in binds : j < k /\ body[j].dst = body[k].args[a]
       /\ \A i \in 1..n : /\ body[i].input = i
                          /\ body[i].op \notin {"apply", "static_cast", "store"}
       /\ \A k \in 1..t : body[n + k].op \in {"apply", "static_cast"}
       /\ \A k \in 1..t : k > 1 =>
            \E a \in DOMAIN body[n + k].args :
              body[n + k].args[a] = body[n + k - 1].dst
       /\ \A k \in (n + t + 1)..Len(body) : body[k].op = "store"

\* A built library of a primitive with several inputs, a tape of three
\* nodes or more and two outputs.
C9_Witness ==
  /\ kernel_lib_ \in DOMAIN library_map
  /\ Len(prim.inputs_) >= 2
  /\ Len(prim.tape_) >= 3
  /\ Len(prim.outputs_) >= 2

(* ------------------------------------------------------------------ *)
(* C10                                                                  *)
(* ------------------------------------------------------------------ *)

\* C10: on the narrow contiguous path and on the strided path, the threads
\* of the launch store at every linear index 0 .. N-1 exactly once, N the
\* number of output elements.
C10_EveryElementStoredOnce ==
  (exec.ran /\ ~call.use_2d) =>
    /\ Cardinality(DOMAIN exec.threads) = OutputSize
    /\ {exec.threads[pos].index : pos \in DOMAIN exec.threads}
         = 0..(OutputSize - 1)
====
